---- MODULE Spec2Model ----
(***************************************************************************)
(* The goroutine, channel and mutex demonstrations of laterrrr()           *)
(* (src/main.go and the older version of the file, src/unnamed/part_001).  *)
(*                                                                         *)
(* Every demonstration is a group of goroutines started by `go f()` and    *)
(* followed by a time.Sleep of the main goroutine; the demonstrations are  *)
(* modelled one at a time (variable demo), each from the state its first   *)
(* `go` statement finds.  A step of the model is one Go statement of one   *)
(* goroutine.  The channel statements (send, receive, range, close) follow *)
(* the Go semantics of channels: a FIFO buffer of cap(c) values, a queue   *)
(* of parked receivers and a queue of parked senders.                      *)
(***************************************************************************)
EXTENDS Integers, Sequences, FiniteSets, TLC

\* ------------------------------------------------------------ constants

\* make(chan int, 3): the buffer size of the back-pressure channel
BackPressureCap == 3
\* for i := 0; i < 10; i++ of the back-pressure producer
ProducerCount == 10
\* for i := 0; i < 5; i++ of the looping senders
SenderCount == 5
\* make(chan int): an unbuffered channel
Unbuffered == 0
\* make(chan int, 2) of main.go
SmallCap == 2
\* balance := 100
InitialBalance == 100

\* workItems := []int{1, 2, 3, 4}
workItems == <<1, 2, 3, 4>>

\* bounds of the channel usage harness (SpecUsage)
MaxCap == 2
MaxOps == 4
MaxVal == 2

Demos == {"exchange", "close", "loop", "fanin", "fixed", "buffered",
          "backpressure", "synchronization", "mutex", "select", "panic", "rwmutex", "once"}

WorkProcs == {"workItem1", "workItem2", "workItem3", "workItem4"}

\* the earlier version of the file: workItems := []int{1, 2, 3, 4, 5, 6, 8}
accumulatedWorkItems == <<1, 2, 3, 4, 5, 6, 8>>

\* one goroutine for each of them
ResultProcs == {"result1", "result2", "result3", "result4", "result5",
                "result6", "result7"}

Procs == {"main", "sender", "receiver", "producer", "consumer",
          "indexedReceiver1", "indexedReceiver2", "worker1", "worker2",
          "deposit15", "deposit500", "user1", "user2", "receiverDefault",
          "moreCoins", "howManyCoins1", "howManyCoins2",
          "printStuff1", "printStuff2"}
         \cup WorkProcs \cup ResultProcs

ChanNames == {"channel", "synchronizationChannel", "channel1", "channel2",
              "results"}

VARIABLES
    demo,          \* the demonstration that is running
    chans,         \* the channels: cap, buf, closed, recvq, sendq
    pc,            \* the statement each goroutine is at
    wait,          \* "run", "parked" (blocked in a channel or mutex), "woken", "panic"
    rv,            \* the (value, ok) pair the goroutine's last receive returned
    i,             \* the loop counter i of a goroutine
    out,           \* the values a goroutine has printed
    log,           \* the fixed lines a goroutine has printed
    crashed,       \* the run-time panic that ended the program, or "none"
    balance,       \* balance of the mutex demonstration
    balanceMutex,  \* the goroutine holding balanceMutex, or "none"
    tmp,           \* the value of balance or coins a goroutine has read
    ops,           \* number of channel statements started (usage harness)
    chosen,        \* the case the goroutine's last select took
    readWriteMutex,\* readWriteMutex: its writer, its readers, a waiting writer
    coins,         \* coins of the read-write mutex demonstration
    onceMutex,     \* onceMutex: its done flag and the goroutine inside Do
    stuff,         \* stuff of the lazy initialization demonstration
    accumulation,  \* accumulation of the results demonstration
    stack,         \* the call stack of later(): the functions being executed
    panicking,     \* the value of the panic that is unwinding the stack, or "none"
    whatNow        \* what recover() returned in the deferred function of keepCalm

vars == <<demo, chans, pc, wait, rv, i, out, log, crashed, balance,
          balanceMutex, tmp, ops, chosen, readWriteMutex, coins, onceMutex,
          stuff, accumulation, stack, panicking, whatNow>>

\* ------------------------------------------------------------ channels

\* make(chan int, n)
makechan(n) ==
    [cap |-> n, buf |-> <<>>, closed |-> FALSE, recvq |-> <<>>, sendq |-> <<>>]

\* the zero value a receive on a closed and drained channel returns
zero == [value |-> 0, ok |-> FALSE]

received(v) == [value |-> v, ok |-> TRUE]

\* What `c <- v` does in channel state ch: a send on a closed channel panics;
\* a parked receiver is handed the value; the value is buffered when there is
\* room; the sender parks otherwise.
sendOutcomeNoPark(ch) ==
    IF ch.closed THEN "panic"
    ELSE IF ch.recvq # <<>> THEN "handoff"
    ELSE "buffer"

sendOutcomeParkEarly(ch) ==
    IF ch.closed THEN "panic"
    ELSE IF ch.recvq # <<>> THEN "handoff"
    ELSE IF Len(ch.buf) + 1 < ch.cap THEN "buffer"
    ELSE "park"

sendOutcomeNoClosedCheck(ch) ==
    IF ch.recvq # <<>> THEN "handoff"
    ELSE IF Len(ch.buf) < ch.cap THEN "buffer"
    ELSE "park"

sendOutcomeRoomForOne(ch) ==
    IF ch.closed THEN "panic"
    ELSE IF ch.recvq # <<>> THEN "handoff"
    ELSE IF Len(ch.buf) <= ch.cap THEN "buffer"
    ELSE "park"

sendOutcome(ch) ==
    IF ch.closed THEN "panic"
    ELSE IF ch.recvq # <<>> THEN "handoff"
    ELSE IF Len(ch.buf) < ch.cap THEN "buffer"
    ELSE "park"

bufPutFront(buf, v) == <<v>> \o buf

\* the buffer after a value is put at its end
bufPut(buf, v) == Append(buf, v)

\* What `<-c` does in channel state ch: a closed and empty channel yields the
\* zero value; a parked sender is released; a buffered value is taken; the
\* receiver parks otherwise.
recvOutcomeClosedFirst(ch) ==
    IF ch.closed THEN "closed"
    ELSE IF ch.sendq # <<>> THEN "fromSender"
    ELSE IF ch.buf # <<>> THEN "fromBuffer"
    ELSE "park"

recvOutcome(ch) ==
    IF ch.closed /\ ch.buf = <<>> THEN "closed"
    ELSE IF ch.sendq # <<>> THEN "fromSender"
    ELSE IF ch.buf # <<>> THEN "fromBuffer"
    ELSE "park"

bufHeadLast(buf) == buf[Len(buf)]

\* the value a receive takes from the buffer: the oldest
bufHead(buf) == Head(buf)

\* the buffer after its first value is taken
bufGet(buf) == Tail(buf)

bufDroppedByClose(buf) == <<>>

\* the buffer a close leaves
bufAfterClose(buf) == buf

dequeueKeep(q) == q

\* a queue of parked goroutines after its first one is released
dequeue(q) == Tail(q)

RangeOf(s) == {s[k] : k \in 1..Len(s)}

\* a queue of parked goroutines without the goroutines of gs
without(q, gs) == SelectSeq(q, LAMBDA g : g \notin gs)

releasedFirst(q) == IF q = <<>> THEN {} ELSE {Head(q)}

\* the parked receivers a close releases: all of them
released(q) == RangeOf(q)

goreadyLost == "parked"

\* the state of a parked goroutine a channel statement of another goroutine
\* has released: it can run again
goready == "woken"

\* goroutine p executes `c <- v` and goes on at next
chansend(c, p, v, next) ==
    LET ch == chans[c] IN
    CASE wait[p] = "woken" ->
            /\ wait' = [wait EXCEPT ![p] = "run"]
            /\ pc' = [pc EXCEPT ![p] = next]
            /\ UNCHANGED <<chans, rv, crashed, chosen>>
      [] wait[p] = "panic" ->
            /\ crashed' = "send on closed channel"
            /\ UNCHANGED <<chans, rv, wait, pc, chosen>>
      [] wait[p] = "run" /\ sendOutcome(ch) = "panic" ->
            /\ crashed' = "send on closed channel"
            /\ UNCHANGED <<chans, rv, wait, pc, chosen>>
      [] wait[p] = "run" /\ sendOutcome(ch) = "handoff" ->
            LET r == Head(ch.recvq) IN
            /\ chans' = [x \in ChanNames |->
                            IF x = c THEN [ch EXCEPT !.recvq = dequeue(@)]
                            ELSE [chans[x] EXCEPT !.recvq = without(@, {r})]]
            /\ wait' = [wait EXCEPT ![r] = goready]
            /\ rv' = [rv EXCEPT ![r] = received(v)]
            /\ chosen' = [chosen EXCEPT ![r] = c]
            /\ pc' = [pc EXCEPT ![p] = next]
            /\ UNCHANGED crashed
      [] wait[p] = "run" /\ sendOutcome(ch) = "buffer" ->
            /\ chans' = [chans EXCEPT ![c].buf = bufPut(@, v)]
            /\ pc' = [pc EXCEPT ![p] = next]
            /\ UNCHANGED <<rv, wait, crashed, chosen>>
      [] wait[p] = "run" /\ sendOutcome(ch) = "park" ->
            /\ chans' = [chans EXCEPT ![c].sendq = Append(@, [proc |-> p, value |-> v])]
            /\ wait' = [wait EXCEPT ![p] = "parked"]
            /\ UNCHANGED <<rv, pc, crashed, chosen>>
      [] OTHER -> FALSE

\* goroutine p executes `v, ok := <-c` and goes on at nextOk when ok, at
\* nextClosed when not
chanrecv(c, p, nextOk, nextClosed) ==
    LET ch == chans[c] IN
    CASE wait[p] = "woken" ->
            /\ wait' = [wait EXCEPT ![p] = "run"]
            /\ pc' = [pc EXCEPT ![p] = IF rv[p].ok THEN nextOk ELSE nextClosed]
            /\ chosen' = [chosen EXCEPT ![p] = "none"]
            /\ UNCHANGED <<chans, rv, crashed>>
      [] wait[p] = "run" /\ recvOutcome(ch) = "closed" ->
            /\ rv' = [rv EXCEPT ![p] = zero]
            /\ pc' = [pc EXCEPT ![p] = nextClosed]
            /\ UNCHANGED <<chans, wait, crashed, chosen>>
      [] wait[p] = "run" /\ recvOutcome(ch) = "fromSender" ->
            LET s == Head(ch.sendq) IN
            /\ IF ch.buf = <<>>
                  THEN /\ rv' = [rv EXCEPT ![p] = received(s.value)]
                       /\ chans' = [chans EXCEPT ![c].sendq = dequeue(@)]
                  ELSE /\ rv' = [rv EXCEPT ![p] = received(bufHead(ch.buf))]
                       /\ chans' = [chans EXCEPT ![c].sendq = dequeue(@),
                                                 ![c].buf = bufPut(bufGet(@), s.value)]
            /\ wait' = [wait EXCEPT ![s.proc] = goready]
            /\ pc' = [pc EXCEPT ![p] = nextOk]
            /\ UNCHANGED <<crashed, chosen>>
      [] wait[p] = "run" /\ recvOutcome(ch) = "fromBuffer" ->
            /\ rv' = [rv EXCEPT ![p] = received(bufHead(ch.buf))]
            /\ chans' = [chans EXCEPT ![c].buf = bufGet(@)]
            /\ pc' = [pc EXCEPT ![p] = nextOk]
            /\ UNCHANGED <<wait, crashed, chosen>>
      [] wait[p] = "run" /\ recvOutcome(ch) = "park" ->
            /\ chans' = [chans EXCEPT ![c].recvq = Append(@, p)]
            /\ wait' = [wait EXCEPT ![p] = "parked"]
            /\ UNCHANGED <<rv, pc, crashed, chosen>>
      [] OTHER -> FALSE

\* goroutine p executes close(c) and goes on at next: closing a closed
\* channel panics; every parked receiver is released with the zero value and
\* every parked sender panics
closechan(c, p, next) ==
    LET ch == chans[c]
        rs == released(ch.recvq)
        ss == {ch.sendq[k].proc : k \in 1..Len(ch.sendq)}
    IN
    IF ch.closed
       THEN /\ crashed' = "close of closed channel"
            /\ UNCHANGED <<chans, rv, wait, pc, chosen>>
       ELSE /\ chans' = [x \in ChanNames |->
                            IF x = c THEN [ch EXCEPT !.closed = TRUE,
                                                     !.buf = bufAfterClose(@),
                                                     !.recvq = without(@, rs),
                                                     !.sendq = <<>>]
                            ELSE [chans[x] EXCEPT !.recvq = without(@, rs)]]
            /\ wait' = [q \in Procs |-> IF q \in rs THEN goready
                                        ELSE IF q \in ss THEN "panic"
                                        ELSE wait[q]]
            /\ rv' = [q \in Procs |-> IF q \in rs THEN zero ELSE rv[q]]
            /\ chosen' = [q \in Procs |-> IF q \in rs THEN c ELSE chosen[q]]
            /\ pc' = [pc EXCEPT ![p] = next]
            /\ UNCHANGED crashed

\* the cases of a select whose receive can proceed at once
selectReady(cs) == {c \in cs : recvOutcome(chans[c]) # "park"}

parksAlways(hasDefault) == TRUE

\* a select with no case ready parks unless it has a default branch
parksWhenNoneReady(hasDefault) == ~hasDefault

\* goroutine p executes a select over receives from the channels cs, with a
\* default branch or without, and goes on at next[c] for the case c taken:
\* one of the ready cases is taken; with none ready the default branch is
\* taken if there is one, and the goroutine parks on every channel if not
selectgo(p, cs, hasDefault, next) ==
    CASE wait[p] = "woken" ->
            /\ wait' = [wait EXCEPT ![p] = "run"]
            /\ pc' = [pc EXCEPT ![p] = next[chosen[p]]]
            /\ UNCHANGED <<chans, rv, crashed, chosen>>
      [] wait[p] = "run" /\ selectReady(cs) # {} ->
            \E c \in selectReady(cs) :
                LET ch == chans[c] IN
                /\ CASE recvOutcome(ch) = "closed" ->
                            /\ rv' = [rv EXCEPT ![p] = zero]
                            /\ UNCHANGED <<chans, wait>>
                      [] recvOutcome(ch) = "fromSender" /\ ch.buf = <<>> ->
                            /\ rv' = [rv EXCEPT ![p] = received(Head(ch.sendq).value)]
                            /\ chans' = [chans EXCEPT ![c].sendq = dequeue(@)]
                            /\ wait' = [wait EXCEPT ![Head(ch.sendq).proc] = goready]
                      [] recvOutcome(ch) = "fromSender" /\ ch.buf # <<>> ->
                            /\ rv' = [rv EXCEPT ![p] = received(bufHead(ch.buf))]
                            /\ chans' = [chans EXCEPT
                                            ![c].sendq = dequeue(@),
                                            ![c].buf = bufPut(bufGet(@), Head(ch.sendq).value)]
                            /\ wait' = [wait EXCEPT ![Head(ch.sendq).proc] = goready]
                      [] recvOutcome(ch) = "fromBuffer" ->
                            /\ rv' = [rv EXCEPT ![p] = received(bufHead(ch.buf))]
                            /\ chans' = [chans EXCEPT ![c].buf = bufGet(@)]
                            /\ UNCHANGED wait
                /\ chosen' = [chosen EXCEPT ![p] = c]
                /\ pc' = [pc EXCEPT ![p] = next[c]]
                /\ UNCHANGED crashed
      [] wait[p] = "run" /\ selectReady(cs) = {} /\ ~parksWhenNoneReady(hasDefault) ->
            /\ chosen' = [chosen EXCEPT ![p] = "default"]
            /\ pc' = [pc EXCEPT ![p] = next["default"]]
            /\ UNCHANGED <<chans, rv, wait, crashed>>
      [] wait[p] = "run" /\ selectReady(cs) = {} /\ parksWhenNoneReady(hasDefault) ->
            /\ chans' = [x \in ChanNames |->
                            IF x \in cs THEN [chans[x] EXCEPT !.recvq = Append(@, p)]
                            ELSE chans[x]]
            /\ wait' = [wait EXCEPT ![p] = "parked"]
            /\ UNCHANGED <<rv, pc, crashed, chosen>>
      [] OTHER -> FALSE

\* goroutine p is at statement l and can take a step
at(p, l) == crashed = "none" /\ pc[p] = l /\ wait[p] # "parked"

\* what a time.Sleep of one second in main waits for: every other goroutine
\* has returned or is parked
quiescent ==
    \A p \in Procs \ {"main"} : pc[p] \in {"idle", "done"} \/ wait[p] = "parked"

\* ------------------------------------------------------------ initial state

\* the goroutines each demonstration starts, and their first statement
start(d) ==
    CASE d = "exchange" -> [sender |-> "send1", receiver |-> "recv1"]
      [] d = "close" -> [sender |-> "closing", receiver |-> "recvok"]
      [] d = "loop" -> [sender |-> "send", receiver |-> "range"]
      [] d = "fanin" -> [main |-> "result", workItem1 |-> "send", workItem2 |-> "send",
                         workItem3 |-> "send", workItem4 |-> "send"]
      [] d = "fixed" -> [sender |-> "send", indexedReceiver1 |-> "range",
                         indexedReceiver2 |-> "range"]
      [] d = "buffered" -> [main |-> "close"]
      [] d = "backpressure" -> [producer |-> "send", consumer |-> "range"]
      [] d = "synchronization" -> [worker1 |-> "stuff", worker2 |-> "stuff"]
      [] d = "mutex" -> [deposit15 |-> "lock", deposit500 |-> "lock"]
      [] d = "usage" -> [user1 |-> "ready", user2 |-> "ready"]
      [] d = "panic" -> [main |-> "keepCalm()"]
      [] d = "results" -> [main |-> "accumulate", result1 |-> "send",
                           result2 |-> "send", result3 |-> "send",
                           result4 |-> "send", result5 |-> "send",
                           result6 |-> "send", result7 |-> "send"]
      [] d = "once" -> [printStuff1 |-> "Do", printStuff2 |-> "Do"]
      [] d = "rwmutex" -> [moreCoins |-> "lock", howManyCoins1 |-> "rlock",
                           howManyCoins2 |-> "rlock"]
      [] d = "select" -> [sender |-> "send2", receiver |-> "select", main |-> "sleep1"]

\* the buffer sizes of the channel each demonstration uses: the two versions
\* of the file make the channel of the first two demonstrations with
\* make(chan int) and with make(chan int, 3)
capOf(d) ==
    CASE d \in {"exchange", "close"} -> {Unbuffered, BackPressureCap}
      [] d = "buffered" -> {SmallCap}
      [] d = "backpressure" -> {BackPressureCap}
      [] d = "usage" -> 0..MaxCap
      [] OTHER -> {Unbuffered}

resultsUnbuffered == Unbuffered

\* results := make(chan int, len(workItems))
resultsCap == Len(accumulatedWorkItems)

\* the stack frame of a call of fn that returns to statement ret of its caller
frame(fn, ret) == [fn |-> fn, defers |-> <<>>, ret |-> ret]

InitOf(ds) ==
    /\ demo \in ds
    /\ \E n \in capOf(demo) :
          chans = [c \in ChanNames |->
                      makechan(IF c = "channel" THEN n
                               ELSE IF c = "results" THEN resultsCap
                               ELSE Unbuffered)]
    /\ pc = [p \in Procs |-> IF p \in DOMAIN start(demo) THEN start(demo)[p] ELSE "idle"]
    /\ wait = [p \in Procs |-> "run"]
    /\ rv = [p \in Procs |-> zero]
    /\ i = [p \in Procs |-> 0]
    /\ out = [p \in Procs |-> <<>>]
    /\ log = [p \in Procs |-> <<>>]
    /\ crashed = "none"
    /\ balance = InitialBalance
    /\ balanceMutex = "none"
    /\ tmp = [p \in Procs |-> 0]
    /\ ops = 0
    /\ chosen = [p \in Procs |-> "none"]
    /\ readWriteMutex = [writer |-> "none", readers |-> {}, waiting |-> "none"]
    /\ coins = 0
    /\ onceMutex = [done |-> FALSE, m |-> "none"]
    /\ stuff = 0
    /\ accumulation = 0
    /\ stack = IF demo = "panic" THEN <<frame("later", "done")>> ELSE <<>>
    /\ panicking = "none"
    /\ whatNow = "none"

Init == InitOf(Demos)

\* the state of the demonstrations without channels
rest == <<readWriteMutex, coins, onceMutex, stuff, accumulation, stack,
          panicking, whatNow>>

others == <<demo, balance, balanceMutex, tmp, ops, rest>>

\* ------------------------------------------------------------ back pressure

\* producer: channel <- i
ProducerSend ==
    /\ demo = "backpressure" /\ at("producer", "send")
    /\ chansend("channel", "producer", i["producer"], "waited")
    /\ UNCHANGED <<i, out, log, others>>

\* producer: the Printf after the send, i++ and the loop test
ProducerWaited ==
    /\ demo = "backpressure" /\ at("producer", "waited")
    /\ i' = [i EXCEPT !["producer"] = @ + 1]
    /\ pc' = [pc EXCEPT !["producer"] =
                 IF i["producer"] + 1 < ProducerCount THEN "send" ELSE "close"]
    /\ UNCHANGED <<chans, wait, rv, out, log, crashed, chosen, others>>

\* producer: close(channel)
ProducerClose ==
    /\ demo = "backpressure" /\ at("producer", "close")
    /\ closechan("channel", "producer", "done")
    /\ UNCHANGED <<i, out, log, others>>

\* consumer: for value := range channel
ConsumerRange ==
    /\ demo = "backpressure" /\ at("consumer", "range")
    /\ chanrecv("channel", "consumer", "body", "closed")
    /\ UNCHANGED <<i, out, log, others>>

\* consumer: the Sleep and the Printf of the loop body
ConsumerBody ==
    /\ demo = "backpressure" /\ at("consumer", "body")
    /\ out' = [out EXCEPT !["consumer"] = Append(@, rv["consumer"].value)]
    /\ pc' = [pc EXCEPT !["consumer"] = "range"]
    /\ UNCHANGED <<chans, wait, rv, i, log, crashed, chosen, others>>

\* consumer: fmt.Println("channel was closed")
ConsumerClosed ==
    /\ demo = "backpressure" /\ at("consumer", "closed")
    /\ log' = [log EXCEPT !["consumer"] = Append(@, "channel was closed")]
    /\ pc' = [pc EXCEPT !["consumer"] = "done"]
    /\ UNCHANGED <<chans, wait, rv, i, out, crashed, chosen, others>>

\* ------------------------------------------------------------ exchange

\* sender: fmt.Println("sending value 1"); channel <- 1
SenderSend1 ==
    /\ demo = "exchange" /\ at("sender", "send1")
    /\ chansend("channel", "sender", 1, "done")
    /\ UNCHANGED <<i, out, log, others>>

\* receiver: value := <-channel
ReceiverRecv1 ==
    /\ demo = "exchange" /\ at("receiver", "recv1")
    /\ chanrecv("channel", "receiver", "print", "print")
    /\ UNCHANGED <<i, out, log, others>>

\* receiver: fmt.Printf("received value %v\n", value)
ReceiverPrint1 ==
    /\ demo = "exchange" /\ at("receiver", "print")
    /\ out' = [out EXCEPT !["receiver"] = Append(@, rv["receiver"].value)]
    /\ pc' = [pc EXCEPT !["receiver"] = "done"]
    /\ UNCHANGED <<chans, wait, rv, i, log, crashed, chosen, others>>

\* ------------------------------------------------------------ close

\* sender: fmt.Println("closing channel"); close(channel)
SenderClosing ==
    /\ demo = "close" /\ at("sender", "closing")
    /\ closechan("channel", "sender", "done")
    /\ UNCHANGED <<i, out, log, others>>

\* receiver: if _, ok := <-channel; !ok
ReceiverRecvOk ==
    /\ demo = "close" /\ at("receiver", "recvok")
    /\ chanrecv("channel", "receiver", "done", "closed")
    /\ UNCHANGED <<i, out, log, others>>

\* ------------------------------------------------------------ loop, fixed receivers

\* sender: channel <- i
SenderSend ==
    /\ demo \in {"loop", "fixed"} /\ at("sender", "send")
    /\ chansend("channel", "sender", i["sender"], "next")
    /\ UNCHANGED <<i, out, log, others>>

\* sender: i++ and the loop test
SenderNext ==
    /\ demo \in {"loop", "fixed"} /\ at("sender", "next")
    /\ i' = [i EXCEPT !["sender"] = @ + 1]
    /\ pc' = [pc EXCEPT !["sender"] =
                 IF i["sender"] + 1 < SenderCount THEN "send" ELSE "close"]
    /\ UNCHANGED <<chans, wait, rv, out, log, crashed, chosen, others>>

\* sender: close(channel)
SenderClose ==
    /\ demo \in {"loop", "fixed"} /\ at("sender", "close")
    /\ closechan("channel", "sender", "done")
    /\ UNCHANGED <<i, out, log, others>>

\* receiver: for value := range channel
ReceiverRange ==
    /\ demo = "loop" /\ at("receiver", "range")
    /\ chanrecv("channel", "receiver", "body", "closed")
    /\ UNCHANGED <<i, out, log, others>>

\* receiver: fmt.Printf("received value %v\n", value)
ReceiverBody ==
    /\ demo = "loop" /\ at("receiver", "body")
    /\ out' = [out EXCEPT !["receiver"] = Append(@, rv["receiver"].value)]
    /\ pc' = [pc EXCEPT !["receiver"] = "range"]
    /\ UNCHANGED <<chans, wait, rv, i, log, crashed, chosen, others>>

\* receiver: fmt.Println("channel was closed"), in the close and the loop
\* demonstrations
ReceiverClosed ==
    /\ demo \in {"close", "loop"} /\ at("receiver", "closed")
    /\ log' = [log EXCEPT !["receiver"] = Append(@, "channel was closed")]
    /\ pc' = [pc EXCEPT !["receiver"] = "done"]
    /\ UNCHANGED <<chans, wait, rv, i, out, crashed, chosen, others>>

IndexedReceivers == {"indexedReceiver1", "indexedReceiver2"}

\* indexedReceiver(index): for value := range channel
IndexedReceiverRange(p) ==
    /\ demo = "fixed" /\ at(p, "range")
    /\ chanrecv("channel", p, "body", "done")
    /\ UNCHANGED <<i, out, log, others>>

\* indexedReceiver(index): fmt.Printf("%v received value %v\n", index, value)
IndexedReceiverBody(p) ==
    /\ demo = "fixed" /\ at(p, "body")
    /\ out' = [out EXCEPT ![p] = Append(@, rv[p].value)]
    /\ pc' = [pc EXCEPT ![p] = "range"]
    /\ UNCHANGED <<chans, wait, rv, i, log, crashed, chosen, others>>

\* ------------------------------------------------------------ fan in

\* the work item each goroutine of the loop captured
capturedWorkItem(p) ==
    CASE p = "workItem1" -> workItems[1]
      [] p = "workItem2" -> workItems[2]
      [] p = "workItem3" -> workItems[3]
      [] p = "workItem4" -> workItems[4]

\* go func(capturedWorkItem int): channel <- capturedWorkItem
WorkItemSend(p) ==
    /\ demo = "fanin" /\ at(p, "send")
    /\ chansend("channel", p, capturedWorkItem(p), "done")
    /\ UNCHANGED <<i, out, log, others>>

\* main: result := <-channel
MainResult ==
    /\ demo = "fanin" /\ at("main", "result")
    /\ chanrecv("channel", "main", "print", "print")
    /\ UNCHANGED <<i, out, log, others>>

moreResultsButLast(n) == n < Len(workItems) - 1

\* for range workItems: the loop goes on after n rounds
moreResults(n) == n < Len(workItems)

\* main: fmt.Printf("received result %v\n", result) and the loop test
MainPrintResult ==
    /\ demo = "fanin" /\ at("main", "print")
    /\ out' = [out EXCEPT !["main"] = Append(@, rv["main"].value)]
    /\ i' = [i EXCEPT !["main"] = @ + 1]
    /\ pc' = [pc EXCEPT !["main"] =
                 IF moreResults(i["main"] + 1) THEN "result" ELSE "close"]
    /\ UNCHANGED <<chans, wait, rv, log, crashed, chosen, others>>

\* main: close(channel), after the fan in loop and after make(chan int, 2)
MainClose ==
    /\ demo \in {"fanin", "buffered"} /\ at("main", "close")
    /\ closechan("channel", "main", "done")
    /\ UNCHANGED <<i, out, log, others>>

\* ------------------------------------------------------------ synchronization

Workers == {"worker1", "worker2"}

\* worker: fmt.Println("workerN stuff..."); time.Sleep
WorkerStuff(p) ==
    /\ demo = "synchronization" /\ at(p, "stuff")
    /\ log' = [log EXCEPT ![p] = Append(@, "stuff")]
    /\ pc' = [pc EXCEPT ![p] = "synchronizing"]
    /\ UNCHANGED <<chans, wait, rv, i, out, crashed, chosen, others>>

\* worker: fmt.Println("synchronizing")
WorkerSynchronizing(p) ==
    /\ demo = "synchronization" /\ at(p, "synchronizing")
    /\ log' = [log EXCEPT ![p] = Append(@, "synchronizing")]
    /\ pc' = [pc EXCEPT ![p] = "exchange"]
    /\ UNCHANGED <<chans, wait, rv, i, out, crashed, chosen, others>>

\* worker1: synchronizationChannel <- 1
Worker1Send ==
    /\ demo = "synchronization" /\ at("worker1", "exchange")
    /\ chansend("synchronizationChannel", "worker1", 1, "more")
    /\ UNCHANGED <<i, out, log, others>>

\* worker2: _ = <-synchronizationChannel
Worker2Recv ==
    /\ demo = "synchronization" /\ at("worker2", "exchange")
    /\ chanrecv("synchronizationChannel", "worker2", "more", "more")
    /\ UNCHANGED <<i, out, log, others>>

\* worker: fmt.Println("more workerN stuff...")
WorkerMore(p) ==
    /\ demo = "synchronization" /\ at(p, "more")
    /\ log' = [log EXCEPT ![p] = Append(@, "more")]
    /\ pc' = [pc EXCEPT ![p] = "done"]
    /\ UNCHANGED <<chans, wait, rv, i, out, crashed, chosen, others>>

\* ------------------------------------------------------------ mutex

Deposits == {"deposit15", "deposit500"}

\* go deposit(15); go deposit(500)
amount(p) == IF p = "deposit15" THEN 15 ELSE 500

canLockAlways(m) == TRUE

\* balanceMutex.Lock() returns only when no goroutine holds the mutex
canLock(m) == m = "none"

\* deposit: balanceMutex.Lock(); defer balanceMutex.Unlock()
DepositLock(p) ==
    /\ demo = "mutex" /\ at(p, "lock")
    /\ canLock(balanceMutex)
    /\ balanceMutex' = p
    /\ pc' = [pc EXCEPT ![p] = "read"]
    /\ UNCHANGED <<demo, chans, wait, rv, i, out, log, crashed, balance, tmp, ops, chosen, rest>>

\* deposit: balance += amount, the read of balance
DepositRead(p) ==
    /\ demo = "mutex" /\ at(p, "read")
    /\ tmp' = [tmp EXCEPT ![p] = balance]
    /\ pc' = [pc EXCEPT ![p] = "write"]
    /\ UNCHANGED <<demo, chans, wait, rv, i, out, log, crashed, balance, balanceMutex, ops, chosen, rest>>

\* deposit: balance += amount, the write of balance
DepositWrite(p) ==
    /\ demo = "mutex" /\ at(p, "write")
    /\ balance' = tmp[p] + amount(p)
    /\ pc' = [pc EXCEPT ![p] = "unlock"]
    /\ UNCHANGED <<demo, chans, wait, rv, i, out, log, crashed, balanceMutex, tmp, ops, chosen, rest>>

unlockedKept(m) == m

\* balanceMutex.Unlock() leaves the mutex held by no goroutine
unlocked(m) == "none"

\* deposit: the deferred balanceMutex.Unlock() at the return
DepositUnlock(p) ==
    /\ demo = "mutex" /\ at(p, "unlock")
    /\ balanceMutex' = unlocked(balanceMutex)
    /\ pc' = [pc EXCEPT ![p] = "done"]
    /\ UNCHANGED <<demo, chans, wait, rv, i, out, log, crashed, balance, tmp, ops, chosen, rest>>

\* ------------------------------------------------------------ select

\* sender: channel2 <- 1
SenderSend2 ==
    /\ demo = "select" /\ at("sender", "send2")
    /\ chansend("channel2", "sender", 1, "done")
    /\ UNCHANGED <<i, out, log, others>>

\* receiver: select { case value := <-channel1: ... case value := <-channel2: ... }
ReceiverSelect ==
    /\ demo = "select" /\ at("receiver", "select")
    /\ selectgo("receiver", {"channel1", "channel2"}, FALSE,
                [channel1 |-> "received1", channel2 |-> "received2"])
    /\ UNCHANGED <<i, out, log, others>>

\* receiver: fmt.Printf("received %v on channel1\n", value), or on channel2
ReceiverReceived ==
    /\ demo = "select" /\ crashed = "none"
    /\ pc["receiver"] \in {"received1", "received2"}
    /\ out' = [out EXCEPT !["receiver"] = Append(@, rv["receiver"].value)]
    /\ log' = [log EXCEPT !["receiver"] =
                  Append(@, IF pc["receiver"] = "received1" THEN "channel1" ELSE "channel2")]
    /\ pc' = [pc EXCEPT !["receiver"] = "done"]
    /\ UNCHANGED <<chans, wait, rv, i, crashed, chosen, others>>

\* main: time.Sleep(1 * time.Second); receiver = ...; go receiver()
MainGoReceiverDefault ==
    /\ demo = "select" /\ at("main", "sleep1")
    /\ quiescent
    /\ pc' = [pc EXCEPT !["main"] = "sleep2", !["receiverDefault"] = "select"]
    /\ UNCHANGED <<chans, wait, rv, i, out, log, crashed, chosen, others>>

\* receiver: select { case _ = <-channel1: ... default: ... }
ReceiverDefaultSelect ==
    /\ demo = "select" /\ at("receiverDefault", "select")
    /\ selectgo("receiverDefault", {"channel1"}, TRUE,
                [channel1 |-> "done", default |-> "nothing"])
    /\ UNCHANGED <<i, out, log, others>>

\* receiver: fmt.Println("received nothing")
ReceiverDefaultNothing ==
    /\ demo = "select" /\ at("receiverDefault", "nothing")
    /\ log' = [log EXCEPT !["receiverDefault"] = Append(@, "received nothing")]
    /\ pc' = [pc EXCEPT !["receiverDefault"] = "done"]
    /\ UNCHANGED <<chans, wait, rv, i, out, crashed, chosen, others>>

\* main: time.Sleep(1 * time.Second)
MainSleep2 ==
    /\ demo = "select" /\ at("main", "sleep2")
    /\ quiescent
    /\ pc' = [pc EXCEPT !["main"] = "close1"]
    /\ UNCHANGED <<chans, wait, rv, i, out, log, crashed, chosen, others>>

\* main: close(channel1)
MainClose1 ==
    /\ demo = "select" /\ at("main", "close1")
    /\ closechan("channel1", "main", "close2")
    /\ UNCHANGED <<i, out, log, others>>

MainClose1Again ==
    /\ demo = "select" /\ at("main", "close2")
    /\ closechan("channel1", "main", "done")
    /\ UNCHANGED <<i, out, log, others>>

\* main: close(channel2)
MainClose2 ==
    /\ demo = "select" /\ at("main", "close2")
    /\ closechan("channel2", "main", "done")
    /\ UNCHANGED <<i, out, log, others>>

\* ------------------------------------------------------------ panic and recover

\* the variables the statements of later() leave alone
unwound == <<chans, wait, rv, i, out, crashed, chosen, demo, balance,
             balanceMutex, tmp, ops, readWriteMutex, coins, onceMutex, stuff,
             accumulation>>

top == stack[Len(stack)]

push(f) == Append(stack, f)

pop == SubSeq(stack, 1, Len(stack) - 1)

\* later: keepCalm()
LaterKeepCalm ==
    /\ demo = "panic" /\ at("main", "keepCalm()")
    /\ stack' = push(frame("keepCalm", "laterr()"))
    /\ pc' = [pc EXCEPT !["main"] = "defer"]
    /\ UNCHANGED <<log, panicking, whatNow, unwound>>

\* keepCalm: defer func() { ... }()
KeepCalmDefer ==
    /\ demo = "panic" /\ at("main", "defer")
    /\ stack' = [stack EXCEPT ![Len(stack)].defers = Append(@, "func")]
    /\ pc' = [pc EXCEPT !["main"] = "ohNoes()"]
    /\ UNCHANGED <<log, panicking, whatNow, unwound>>

\* keepCalm: ohNoes()
KeepCalmOhNoes ==
    /\ demo = "panic" /\ at("main", "ohNoes()")
    /\ stack' = push(frame("ohNoes", "too bad"))
    /\ pc' = [pc EXCEPT !["main"] = "panic"]
    /\ UNCHANGED <<log, panicking, whatNow, unwound>>

\* ohNoes: panic("we are screwed")
OhNoesPanic ==
    /\ demo = "panic" /\ at("main", "panic")
    /\ panicking' = "we are screwed"
    /\ pc' = [pc EXCEPT !["main"] = "exit"]
    /\ UNCHANGED <<log, stack, whatNow, unwound>>

deferredNone(f) == <<>>

\* the deferred calls a function runs when it exits, by return or by panic
deferred(f) == f.defers

\* the function on top of the stack exits, by its return or by the panic:
\* its last deferred call is run if it has one; the function returns to its
\* caller if not, and the caller goes on at the statement after the call,
\* or exits too while the panic is not recovered; a panic that leaves the
\* last function ends the program
FunctionExit ==
    /\ demo = "panic" /\ at("main", "exit")
    /\ IF deferred(top) # <<>>
          THEN /\ stack' = Append([stack EXCEPT ![Len(stack)].defers =
                                      SubSeq(@, 1, Len(@) - 1)],
                                  frame("func", "exit"))
               /\ pc' = [pc EXCEPT !["main"] = "recover()"]
               /\ UNCHANGED crashed
          ELSE IF panicking = "none"
                  THEN /\ stack' = pop
                       /\ pc' = [pc EXCEPT !["main"] = top.ret]
                       /\ UNCHANGED crashed
                  ELSE IF Len(stack) = 1
                          THEN /\ crashed' = "panic"
                               /\ UNCHANGED <<stack, pc>>
                          ELSE /\ stack' = pop
                               /\ UNCHANGED <<pc, crashed>>
    /\ UNCHANGED <<log, panicking, whatNow, chans, wait, rv, i, out, chosen,
                   demo, balance, balanceMutex, tmp, ops, readWriteMutex, coins,
                   onceMutex, stuff, accumulation>>

\* the deferred function: whatNow := recover()
DeferredRecover ==
    /\ demo = "panic" /\ at("main", "recover()")
    /\ whatNow' = panicking
    /\ panicking' = "none"
    /\ pc' = [pc EXCEPT !["main"] = "Println(whatNow)"]
    /\ UNCHANGED <<log, stack, unwound>>

\* fmt.Println(whatNow) of the deferred function, fmt.Println("too bad
\* won't execute") of keepCalm
Println ==
    /\ demo = "panic" /\ crashed = "none"
    /\ pc["main"] \in {"Println(whatNow)", "too bad"}
    /\ log' = [log EXCEPT !["main"] =
                  Append(@, IF pc["main"] = "too bad" THEN "too bad won't execute"
                            ELSE whatNow)]
    /\ pc' = [pc EXCEPT !["main"] = "exit"]
    /\ UNCHANGED <<stack, panicking, whatNow, unwound>>

\* later: laterr()
LaterLaterr ==
    /\ demo = "panic" /\ at("main", "laterr()")
    /\ log' = [log EXCEPT !["main"] = Append(@, "laterr()")]
    /\ pc' = [pc EXCEPT !["main"] = "done"]
    /\ UNCHANGED <<stack, panicking, whatNow, unwound>>

\* ------------------------------------------------------------ read-write mutex

\* go howManyCoins(); go howManyCoins()
Readers == {"howManyCoins1", "howManyCoins2"}

\* go moreCoins(15)
count == 15

\* the variables the goroutines of the mutex demonstrations leave alone
unlockedState == <<demo, chans, wait, rv, i, crashed, chosen, balance,
                   balanceMutex, ops, onceMutex, accumulation, stack,
                   panicking, whatNow>>

\* moreCoins: readWriteMutex.Lock(), which announces the writer and returns
\* at once when no reader holds the mutex
MoreCoinsLock ==
    /\ demo = "rwmutex" /\ at("moreCoins", "lock")
    /\ IF readWriteMutex.readers = {}
          THEN /\ readWriteMutex' = [readWriteMutex EXCEPT !.writer = "moreCoins"]
               /\ pc' = [pc EXCEPT !["moreCoins"] = "read"]
          ELSE /\ readWriteMutex' = [readWriteMutex EXCEPT !.waiting = "moreCoins"]
               /\ pc' = [pc EXCEPT !["moreCoins"] = "locking"]
    /\ UNCHANGED <<coins, tmp, out, log, stuff, unlockedState>>

\* moreCoins: readWriteMutex.Lock() returns when the last reader has left
MoreCoinsLocked ==
    /\ demo = "rwmutex" /\ at("moreCoins", "locking")
    /\ readWriteMutex.readers = {}
    /\ readWriteMutex' = [readWriteMutex EXCEPT !.writer = "moreCoins",
                                                !.waiting = "none"]
    /\ pc' = [pc EXCEPT !["moreCoins"] = "read"]
    /\ UNCHANGED <<coins, tmp, out, log, stuff, unlockedState>>

\* moreCoins: coins += count, the read of coins
MoreCoinsRead ==
    /\ demo = "rwmutex" /\ at("moreCoins", "read")
    /\ tmp' = [tmp EXCEPT !["moreCoins"] = coins]
    /\ pc' = [pc EXCEPT !["moreCoins"] = "write"]
    /\ UNCHANGED <<coins, readWriteMutex, out, log, stuff, unlockedState>>

\* moreCoins: coins += count, the write of coins
MoreCoinsWrite ==
    /\ demo = "rwmutex" /\ at("moreCoins", "write")
    /\ coins' = tmp["moreCoins"] + count
    /\ pc' = [pc EXCEPT !["moreCoins"] = "unlock"]
    /\ UNCHANGED <<tmp, readWriteMutex, out, log, stuff, unlockedState>>

\* moreCoins: the deferred readWriteMutex.Unlock() at the return
MoreCoinsUnlock ==
    /\ demo = "rwmutex" /\ at("moreCoins", "unlock")
    /\ readWriteMutex' = [readWriteMutex EXCEPT !.writer = "none"]
    /\ pc' = [pc EXCEPT !["moreCoins"] = "done"]
    /\ UNCHANGED <<coins, tmp, out, log, stuff, unlockedState>>

canRLockAlways(m) == TRUE

\* readWriteMutex.RLock() returns only when no writer holds the mutex and
\* none is waiting for it
canRLock(m) == m.writer = "none" /\ m.waiting = "none"

\* howManyCoins: readWriteMutex.RLock(); defer readWriteMutex.RUnlock()
HowManyCoinsRLock(p) ==
    /\ demo = "rwmutex" /\ at(p, "rlock")
    /\ canRLock(readWriteMutex)
    /\ readWriteMutex' = [readWriteMutex EXCEPT !.readers = @ \cup {p}]
    /\ pc' = [pc EXCEPT ![p] = "printf"]
    /\ UNCHANGED <<coins, tmp, out, log, stuff, unlockedState>>

\* howManyCoins: fmt.Printf("that many coins %v\n", coins)
HowManyCoinsPrintf(p) ==
    /\ demo = "rwmutex" /\ at(p, "printf")
    /\ out' = [out EXCEPT ![p] = Append(@, coins)]
    /\ pc' = [pc EXCEPT ![p] = "runlock"]
    /\ UNCHANGED <<coins, tmp, readWriteMutex, log, stuff, unlockedState>>

\* howManyCoins: the deferred readWriteMutex.RUnlock() at the return
HowManyCoinsRUnlock(p) ==
    /\ demo = "rwmutex" /\ at(p, "runlock")
    /\ readWriteMutex' = [readWriteMutex EXCEPT !.readers = @ \ {p}]
    /\ pc' = [pc EXCEPT ![p] = "done"]
    /\ UNCHANGED <<coins, tmp, out, log, stuff, unlockedState>>

\* ------------------------------------------------------------ once

\* go printStuff(); go printStuff()
Printers == {"printStuff1", "printStuff2"}

\* the variables the goroutines of the once demonstration leave alone
onceState == <<demo, chans, wait, rv, i, crashed, chosen, balance,
               balanceMutex, ops, readWriteMutex, coins, tmp, accumulation,
               stack, panicking, whatNow>>

\* printStuff: onceMutex.Do, which returns at once when the function is done
PrintStuffDo(p) ==
    /\ demo = "once" /\ at(p, "Do")
    /\ pc' = [pc EXCEPT ![p] = IF onceMutex.done THEN "Printf" ELSE "doSlow"]
    /\ UNCHANGED <<onceMutex, stuff, out, log, onceState>>

firstAlways(o) == TRUE

\* onceMutex.Do calls the function when it is not done, which it looks at
\* again under the mutex of onceMutex
first(o) == ~o.done

\* printStuff: onceMutex.Do takes the mutex of onceMutex
PrintStuffDoSlow(p) ==
    /\ demo = "once" /\ at(p, "doSlow")
    /\ onceMutex.m = "none"
    /\ onceMutex' = [onceMutex EXCEPT !.m = p]
    /\ pc' = [pc EXCEPT ![p] = IF first(onceMutex) THEN "func" ELSE "unlock"]
    /\ UNCHANGED <<stuff, out, log, onceState>>

\* printStuff: func() { stuff = 10 }, called by onceMutex.Do
PrintStuffFunc(p) ==
    /\ demo = "once" /\ at(p, "func")
    /\ stuff' = 10
    /\ log' = [log EXCEPT ![p] = Append(@, "stuff = 10")]
    /\ pc' = [pc EXCEPT ![p] = "store"]
    /\ UNCHANGED <<onceMutex, out, onceState>>

\* printStuff: onceMutex.Do marks the function done when it has returned
PrintStuffDone(p) ==
    /\ demo = "once" /\ at(p, "store")
    /\ onceMutex' = [onceMutex EXCEPT !.done = TRUE]
    /\ pc' = [pc EXCEPT ![p] = "unlock"]
    /\ UNCHANGED <<stuff, out, log, onceState>>

\* printStuff: onceMutex.Do releases the mutex of onceMutex and returns
PrintStuffUnlock(p) ==
    /\ demo = "once" /\ at(p, "unlock")
    /\ onceMutex' = [onceMutex EXCEPT !.m = "none"]
    /\ pc' = [pc EXCEPT ![p] = "Printf"]
    /\ UNCHANGED <<stuff, out, log, onceState>>

\* printStuff: fmt.Printf("stuff %v\n", stuff)
PrintStuffPrintf(p) ==
    /\ demo = "once" /\ at(p, "Printf")
    /\ out' = [out EXCEPT ![p] = Append(@, stuff)]
    /\ pc' = [pc EXCEPT ![p] = "done"]
    /\ UNCHANGED <<onceMutex, stuff, log, onceState>>

\* ------------------------------------------------------------ specification

Next ==
    \/ SenderSend1 \/ ReceiverRecv1 \/ ReceiverPrint1
    \/ SenderClosing \/ ReceiverRecvOk
    \/ SenderSend \/ SenderNext \/ SenderClose
    \/ ReceiverRange \/ ReceiverBody \/ ReceiverClosed
    \/ \E p \in IndexedReceivers : IndexedReceiverRange(p) \/ IndexedReceiverBody(p)
    \/ \E p \in WorkProcs : WorkItemSend(p)
    \/ MainResult \/ MainPrintResult \/ MainClose
    \/ ProducerSend \/ ProducerWaited \/ ProducerClose
    \/ ConsumerRange \/ ConsumerBody \/ ConsumerClosed
    \/ \E p \in Workers : WorkerStuff(p) \/ WorkerSynchronizing(p) \/ WorkerMore(p)
    \/ Worker1Send \/ Worker2Recv
    \/ \E p \in Deposits : DepositLock(p) \/ DepositRead(p) \/ DepositWrite(p) \/ DepositUnlock(p)
    \/ SenderSend2 \/ ReceiverSelect \/ ReceiverReceived
    \/ MainGoReceiverDefault \/ ReceiverDefaultSelect \/ ReceiverDefaultNothing
    \/ MainSleep2 \/ MainClose1 \/ MainClose2
    \/ LaterKeepCalm \/ KeepCalmDefer \/ KeepCalmOhNoes \/ OhNoesPanic
    \/ FunctionExit \/ DeferredRecover \/ Println \/ LaterLaterr
    \/ MoreCoinsLock \/ MoreCoinsLocked \/ MoreCoinsRead \/ MoreCoinsWrite
    \/ MoreCoinsUnlock
    \/ \E p \in Readers :
          HowManyCoinsRLock(p) \/ HowManyCoinsPrintf(p) \/ HowManyCoinsRUnlock(p)
    \/ \E p \in Printers :
          \/ PrintStuffDo(p) \/ PrintStuffDoSlow(p) \/ PrintStuffFunc(p)
          \/ PrintStuffDone(p) \/ PrintStuffUnlock(p) \/ PrintStuffPrintf(p)

Spec == Init /\ [][Next]_vars

\* ------------------------------------------------------------ fair scheduling

\* the demonstrations whose goroutines run to their end
LiveDemos == {"loop", "fixed", "backpressure"}

NextLive ==
    \/ SenderSend \/ SenderNext \/ SenderClose
    \/ ReceiverRange \/ ReceiverBody \/ ReceiverClosed
    \/ \E p \in IndexedReceivers : IndexedReceiverRange(p) \/ IndexedReceiverBody(p)
    \/ ProducerSend \/ ProducerWaited \/ ProducerClose
    \/ ConsumerRange \/ ConsumerBody \/ ConsumerClosed

\* the scheduler runs every goroutine that can run: a statement that stays
\* enabled is executed
Fairness ==
    /\ WF_vars(SenderSend) /\ WF_vars(SenderNext) /\ WF_vars(SenderClose)
    /\ WF_vars(ReceiverRange) /\ WF_vars(ReceiverBody) /\ WF_vars(ReceiverClosed)
    /\ \A p \in IndexedReceivers :
          WF_vars(IndexedReceiverRange(p)) /\ WF_vars(IndexedReceiverBody(p))
    /\ WF_vars(ProducerSend) /\ WF_vars(ProducerWaited) /\ WF_vars(ProducerClose)
    /\ WF_vars(ConsumerRange) /\ WF_vars(ConsumerBody) /\ WF_vars(ConsumerClosed)

FairSpec == InitOf(LiveDemos) /\ [][NextLive]_vars /\ Fairness

\* ------------------------------------------------------------ results accumulation

\* the work item the goroutine was started with
capturedResult(p) ==
    CASE p = "result1" -> accumulatedWorkItems[1]
      [] p = "result2" -> accumulatedWorkItems[2]
      [] p = "result3" -> accumulatedWorkItems[3]
      [] p = "result4" -> accumulatedWorkItems[4]
      [] p = "result5" -> accumulatedWorkItems[5]
      [] p = "result6" -> accumulatedWorkItems[6]
      [] p = "result7" -> accumulatedWorkItems[7]

\* go func(capturedWorkItem int): results <- capturedWorkItem
ResultSend(p) ==
    /\ demo = "results" /\ at(p, "send")
    /\ chansend("results", p, capturedResult(p), "done")
    /\ UNCHANGED <<i, out, log, others>>

\* main: accumulation += <-results, the receive
MainReceiveResult ==
    /\ demo = "results" /\ at("main", "accumulate")
    /\ chanrecv("results", "main", "add", "add")
    /\ UNCHANGED <<i, out, log, others>>

\* main: accumulation += <-results, the addition, and the loop test of
\* for range workItems
MainAccumulate ==
    /\ demo = "results" /\ at("main", "add")
    /\ accumulation' = accumulation + rv["main"].value
    /\ i' = [i EXCEPT !["main"] = @ + 1]
    /\ pc' = [pc EXCEPT !["main"] =
                 IF i["main"] + 1 < Len(accumulatedWorkItems) THEN "accumulate"
                 ELSE "Printf"]
    /\ UNCHANGED <<chans, wait, rv, out, log, crashed, chosen, demo, balance,
                   balanceMutex, tmp, ops, readWriteMutex, coins, onceMutex,
                   stuff, stack, panicking, whatNow>>

\* main: fmt.Printf("accumulation %v\n", accumulation)
MainPrintAccumulation ==
    /\ demo = "results" /\ at("main", "Printf")
    /\ out' = [out EXCEPT !["main"] = Append(@, accumulation)]
    /\ pc' = [pc EXCEPT !["main"] = "done"]
    /\ UNCHANGED <<chans, wait, rv, i, log, crashed, chosen, others>>

NextResults ==
    \/ \E p \in ResultProcs : ResultSend(p)
    \/ MainReceiveResult \/ MainAccumulate \/ MainPrintAccumulation

\* the results accumulation of the earlier version of the file, with a
\* scheduler that runs a goroutine that can run
SpecResults ==
    InitOf({"results"}) /\ [][NextResults]_vars /\ WF_vars(NextResults)

\* ------------------------------------------------------------ channel usage

Users == {"user1", "user2"}

\* a goroutine starts one more channel statement: a send of v, a receive or
\* a close
UserStart(p, l, v) ==
    /\ demo = "usage" /\ at(p, "ready")
    /\ ops < MaxOps
    /\ ops' = ops + 1
    /\ pc' = [pc EXCEPT ![p] = l]
    /\ i' = [i EXCEPT ![p] = v]
    /\ UNCHANGED <<demo, chans, wait, rv, out, log, crashed, balance, balanceMutex, tmp, chosen, rest>>

\* channel <- v
UserSend(p) ==
    /\ demo = "usage" /\ at(p, "send")
    /\ chansend("channel", p, i[p], "ready")
    /\ UNCHANGED <<i, out, log, others>>

\* value, ok := <-channel
UserRecv(p) ==
    /\ demo = "usage" /\ at(p, "recv")
    /\ chanrecv("channel", p, "value", "ready")
    /\ UNCHANGED <<i, out, log, others>>

\* the use of the received value
UserValue(p) ==
    /\ demo = "usage" /\ at(p, "value")
    /\ out' = [out EXCEPT ![p] = Append(@, rv[p].value)]
    /\ pc' = [pc EXCEPT ![p] = "ready"]
    /\ UNCHANGED <<chans, wait, rv, i, log, crashed, chosen, others>>

\* close(channel)
UserClose(p) ==
    /\ demo = "usage" /\ at(p, "close")
    /\ closechan("channel", p, "ready")
    /\ UNCHANGED <<i, out, log, others>>

InitUsage == InitOf({"usage"})

NextUsage ==
    \E p \in Users :
        \/ \E v \in 1..MaxVal : UserStart(p, "send", v)
        \/ UserStart(p, "recv", 0)
        \/ UserStart(p, "close", 0)
        \/ UserSend(p) \/ UserRecv(p) \/ UserValue(p) \/ UserClose(p)

SpecUsage == InitUsage /\ [][NextUsage]_vars

\* ------------------------------------------------------------ properties

IsPrefix(s, t) == Len(s) <= Len(t) /\ \A k \in 1..Len(s) : s[k] = t[k]

\* the sequence 0, 1, ..., n-1
Iota(n) == [k \in 1..n |-> k - 1]

Increasing(s) == \A k \in 1..Len(s) : \A l \in 1..Len(s) : k < l => s[k] < s[l]

\* number of send statements the looping goroutine p has passed
sendsDone(p) == i[p] + (IF pc[p] \in {"waited", "next"} THEN 1 ELSE 0)

\* goroutine p holds a received value it has not printed yet
holds(p) == pc[p] \in {"body", "print"} \/ (wait[p] = "woken" /\ rv[p].ok)

\* number of values goroutine p has taken from the channel
taken(p) == Len(out[p]) + (IF holds(p) THEN 1 ELSE 0)

\* the values goroutine p has taken from the channel, in order
takenSeq(p) == IF holds(p) THEN Append(out[p], rv[p].value) ELSE out[p]

\* C1: every channel holds at most cap(c) buffered values in every reachable
\* state, and the capacity-3 channel of the back-pressure demonstration never
\* holds more than 3
C1_BufferWithinCapacity ==
    /\ \A c \in ChanNames : Len(chans[c].buf) \in 0..chans[c].cap
    /\ demo = "backpressure" => Len(chans["channel"].buf) <= BackPressureCap

\* the back-pressure buffer is full and the producer is parked on it
C1_Witness ==
    /\ demo = "backpressure"
    /\ Len(chans["channel"].buf) = BackPressureCap
    /\ wait["producer"] = "parked"

\* C2: with two ranging receivers on the channel of one sender of 0..4, and
\* with four sending goroutines and one receiver, no value is taken twice,
\* only sent values are taken, and once every goroutine is done every sent
\* value has been printed exactly once
C2_ExactlyOnce ==
    /\ demo = "fixed" =>
          LET all == takenSeq("indexedReceiver1") \o takenSeq("indexedReceiver2")
              printed == out["indexedReceiver1"] \o out["indexedReceiver2"]
          IN /\ \A k \in 1..Len(all) : all[k] \in 0..(SenderCount - 1)
             /\ \A k \in 1..Len(all) : \A l \in 1..Len(all) : all[k] = all[l] => k = l
             /\ (\A p \in IndexedReceivers : pc[p] = "done") =>
                    /\ RangeOf(printed) = 0..(SenderCount - 1)
                    /\ Len(printed) = SenderCount
    /\ demo = "fanin" =>
          LET all == takenSeq("main")
          IN /\ \A k \in 1..Len(all) : all[k] \in RangeOf(workItems)
             /\ \A k \in 1..Len(all) : \A l \in 1..Len(all) : all[k] = all[l] => k = l
             /\ pc["main"] \in {"close", "done"} =>
                    /\ RangeOf(out["main"]) = RangeOf(workItems)
                    /\ Len(out["main"]) = Len(workItems)

\* both receivers are done and each of them printed some of the five values
C2_Witness ==
    /\ demo = "fixed"
    /\ \A p \in IndexedReceivers : pc[p] = "done" /\ out[p] # <<>>

\* C3: a sender is parked only while the buffer holds cap(c) values, and the
\* sender has passed at most cap(c) more sends than the receiver has taken
\* values: after cap(c) sends with no receive the next send does not complete
C3_SendBlocksOnlyWhenFull ==
    /\ \A c \in ChanNames :
          chans[c].sendq # <<>> => Len(chans[c].buf) = chans[c].cap
    /\ demo = "backpressure" =>
          sendsDone("producer") <= taken("consumer") + BackPressureCap
    /\ demo = "loop" =>
          sendsDone("sender") <= taken("receiver") + Unbuffered

\* three sends are done, nothing was received and the producer is parked in
\* its fourth send
C3_Witness ==
    /\ demo = "backpressure"
    /\ sendsDone("producer") = BackPressureCap
    /\ taken("consumer") = 0
    /\ wait["producer"] = "parked"

\* C4: closing the back-pressure channel discards nothing: while it is closed
\* the values already taken and the N values still buffered are the ten values
\* sent, so exactly N more receives succeed, and the consumer's receive
\* reports closed only once all ten are taken and the buffer is empty
C4_CloseKeepsBuffered ==
    demo = "backpressure" =>
        /\ chans["channel"].closed =>
              /\ taken("consumer") + Len(chans["channel"].buf) = ProducerCount
              /\ takenSeq("consumer") \o chans["channel"].buf = Iota(ProducerCount)
        /\ pc["consumer"] \in {"closed", "done"} =>
              /\ chans["channel"].closed
              /\ chans["channel"].buf = <<>>
              /\ rv["consumer"] = zero
              /\ out["consumer"] = Iota(ProducerCount)

\* the producer has closed the channel while it held three values
C4_Witness ==
    /\ demo = "backpressure"
    /\ chans["channel"].closed
    /\ Len(chans["channel"].buf) = BackPressureCap

\* goroutine p is at a receive statement
atReceive(p) ==
    \/ pc[p] \in {"recv1", "recvok", "range", "result", "recv"}
    \/ p = "worker2" /\ pc[p] = "exchange"

\* C5: a receiver is parked only while the channel is empty, has no parked
\* sender and is not closed; a receive reports closed only on a closed and
\* empty channel, with the zero value; the receiver of the close
\* demonstration ends having printed "channel was closed", and a range loop
\* is left only when the channel is closed and drained
C5_ReceiveContract ==
    /\ \A c \in ChanNames : \A k \in 1..Len(chans[c].recvq) :
          /\ chans[c].buf = <<>>
          /\ chans[c].sendq = <<>>
          /\ ~chans[c].closed
          /\ wait[chans[c].recvq[k]] = "parked"
    /\ \A p \in Procs : atReceive(p) /\ wait[p] = "woken" /\ ~rv[p].ok =>
          /\ rv[p] = zero
          /\ \E c \in ChanNames : chans[c].closed /\ chans[c].buf = <<>>
    /\ demo = "close" =>
          /\ pc["receiver"] \in {"closed", "done"} =>
                chans["channel"].closed /\ rv["receiver"] = zero
          /\ pc["receiver"] = "done" => log["receiver"] = <<"channel was closed">>
    /\ demo \in {"loop", "backpressure"} =>
          LET r == IF demo = "loop" THEN "receiver" ELSE "consumer"
          IN /\ pc[r] \in {"closed", "done"} =>
                    /\ chans["channel"].closed
                    /\ chans["channel"].buf = <<>>
                    /\ rv[r] = zero
             /\ pc[r] = "body" => rv[r].ok
             /\ pc[r] = "done" => log[r] = <<"channel was closed">>
    /\ demo = "fixed" => \A p \in IndexedReceivers :
          /\ pc[p] = "done" => chans["channel"].closed /\ rv[p] = zero
          /\ pc[p] = "body" => rv[p].ok

\* the receiver of the close demonstration was parked before the close and
\* has printed "channel was closed"
C5_Witness ==
    /\ demo = "close"
    /\ pc["receiver"] = "done"
    /\ log["receiver"] = <<"channel was closed">>

\* C6: a send statement executed on a closed channel panics ("send on closed
\* channel") and leaves the channel as it was: the buffer, the parked
\* goroutines and the closed flag
C6_SendOnClosedFails ==
    [][\A p \in Users :
          (chans["channel"].closed /\ wait[p] # "woken" /\ UserSend(p)) =>
              /\ chans' = chans
              /\ crashed' = "send on closed channel"]_vars

\* a send on the closed channel has panicked and the buffered value is still
\* there
C6_Witness ==
    /\ demo = "usage"
    /\ crashed = "send on closed channel"
    /\ chans["channel"].closed
    /\ chans["channel"].buf # <<>>

\* C7: values of one sender are received in the order sent: the single
\* ranging receiver of the loop demonstration and the consumer of the
\* back-pressure demonstration take 0, 1, 2, ... in this order and have
\* printed all of them when they are done; each of the two receivers sharing
\* a channel takes an increasing sequence
C7_FifoPerProducer ==
    /\ demo = "loop" =>
          /\ IsPrefix(takenSeq("receiver"), Iota(SenderCount))
          /\ pc["receiver"] = "done" => out["receiver"] = Iota(SenderCount)
    /\ demo = "backpressure" =>
          /\ IsPrefix(takenSeq("consumer"), Iota(ProducerCount))
          /\ pc["consumer"] = "done" => out["consumer"] = Iota(ProducerCount)
    /\ demo = "fixed" => \A p \in IndexedReceivers : Increasing(takenSeq(p))

\* the consumer is done and has printed 0..9 in order
C7_Witness ==
    /\ demo = "backpressure"
    /\ pc["consumer"] = "done"
    /\ out["consumer"] = Iota(ProducerCount)

\* the single receiver of the four sending goroutines has received their
\* values out of the order of the work items
C7_NoOrderAcrossProducers ==
    /\ demo = "fanin"
    /\ pc["main"] = "done"
    /\ ~Increasing(out["main"])

\* worker p has passed its statement on synchronizationChannel
passed(p) == pc[p] \in {"more", "done"}

\* worker p has arrived at its statement on synchronizationChannel: it is
\* parked in it, was released from it, or has passed it
arrived(p) == passed(p) \/ (pc[p] = "exchange" /\ wait[p] # "run")

\* C8: on an unbuffered channel neither side passes its statement before the
\* other side has arrived at its own: no worker prints its "more ... stuff"
\* line before both have printed "synchronizing", and the sender of the
\* unbuffered exchange is done only once the receiver is in its receive
C8_Rendezvous ==
    /\ demo = "synchronization" =>
          /\ passed("worker1") => arrived("worker2")
          /\ passed("worker2") => arrived("worker1")
          /\ \A p \in Workers : \A q \in Workers :
                "more" \in RangeOf(log[p]) => "synchronizing" \in RangeOf(log[q])
    /\ demo = "exchange" /\ chans["channel"].cap = Unbuffered =>
          /\ pc["sender"] = "done" =>
                \/ pc["receiver"] \in {"print", "done"}
                \/ pc["receiver"] = "recv1" /\ wait["receiver"] = "woken"
          /\ pc["receiver"] \in {"print", "done"} =>
                \/ pc["sender"] = "done"
                \/ pc["sender"] = "send1" /\ wait["sender"] = "woken"

\* both workers have synchronized and printed their "more ... stuff" line
C8_Witness ==
    /\ demo = "synchronization"
    /\ \A p \in Workers : pc[p] = "done" /\ "more" \in RangeOf(log[p])

\* the amounts of the deposits that have written balance
deposited == {p \in Deposits : pc[p] \in {"unlock", "done"}}

\* C9: under every interleaving balance is the initial 100 plus the amounts
\* of the deposits that have updated it, and 615 once both deposits are done
C9_NoLostUpdate ==
    demo = "mutex" =>
        /\ balance = InitialBalance
                     + (IF "deposit15" \in deposited THEN amount("deposit15") ELSE 0)
                     + (IF "deposit500" \in deposited THEN amount("deposit500") ELSE 0)
        /\ (\A p \in Deposits : pc[p] = "done") => balance = 615

\* both deposits are done and balance is 615
C9_Witness ==
    /\ demo = "mutex"
    /\ \A p \in Deposits : pc[p] = "done"
    /\ balance = 615

\* C10: the scenario on the capacity-3 channel with the producer of the code,
\* which sends 0, 1, 2, 3, ... : while nothing is received the producer is
\* not parked in any of its first three sends and passes no more than three;
\* the first value received is 0; the fourth send is passed only after a
\* receive; the values received next are 1, 2, 3 in this order
C10_Scenario ==
    demo = "backpressure" =>
        /\ taken("consumer") = 0 =>
              /\ sendsDone("producer") <= BackPressureCap
              /\ wait["producer"] = "parked" =>
                    /\ i["producer"] = BackPressureCap
                    /\ chans["channel"].buf = Iota(BackPressureCap)
        /\ sendsDone("producer") > BackPressureCap => taken("consumer") >= 1
        /\ IsPrefix(takenSeq("consumer"), Iota(ProducerCount))
        /\ Len(takenSeq("consumer")) >= BackPressureCap + 1 =>
              SubSeq(takenSeq("consumer"), 1, BackPressureCap + 1)
                  = Iota(BackPressureCap + 1)

\* the first receive has released the producer parked in its fourth send:
\* the consumer holds 0 and the buffer holds 1, 2, 3
C10_Witness ==
    /\ demo = "backpressure"
    /\ takenSeq("consumer") = <<0>>
    /\ i["producer"] = BackPressureCap
    /\ wait["producer"] = "woken"
    /\ chans["channel"].buf = <<1, 2, 3>>

\* C11: the close of the fixed-receivers demonstration releases every parked
\* receiver: no receiver stays parked on the closed channel, and under fair
\* scheduling both receivers leave their range loop
C11_CloseWakesAll ==
    /\ [](demo = "fixed" /\ chans["channel"].closed =>
             /\ chans["channel"].recvq = <<>>
             /\ \A p \in IndexedReceivers : wait[p] # "parked")
    /\ (demo = "fixed" ~> (\A p \in IndexedReceivers : pc[p] = "done"))

\* both receivers were parked in their range when the sender closed the
\* channel, and the close has released both
C11_Witness ==
    /\ demo = "fixed"
    /\ chans["channel"].closed
    /\ \A p \in IndexedReceivers :
          pc[p] = "range" /\ wait[p] = "woken" /\ rv[p] = zero

\* C12: the select with a default branch never parks and takes the default
\* branch, printing "received nothing", while channel1 is open and has no
\* sender; the select without default is passed only after the sender has
\* arrived at its send on channel2, takes the channel2 case with value 1 and
\* never the channel1 case
C12_Select ==
    demo = "select" =>
        /\ wait["receiverDefault"] # "parked"
        /\ pc["receiverDefault"] \in {"nothing", "done"} =>
              chosen["receiverDefault"] = "default"
        /\ pc["receiverDefault"] = "done" =>
              log["receiverDefault"] = <<"received nothing">>
        /\ pc["receiver"] # "received1"
        /\ pc["receiver"] \in {"received2", "done"} =>
              /\ chosen["receiver"] = "channel2"
              /\ rv["receiver"] = received(1)
              /\ pc["sender"] = "done" \/ wait["sender"] = "woken"
        /\ pc["receiver"] = "done" =>
              log["receiver"] = <<"channel2">> /\ out["receiver"] = <<1>>

\* the blocking select has received 1 on channel2 and the select with
\* default has printed "received nothing"
C12_Witness ==
    /\ demo = "select"
    /\ pc["receiver"] = "done" /\ log["receiver"] = <<"channel2">>
    /\ pc["receiverDefault"] = "done"
    /\ log["receiverDefault"] = <<"received nothing">>

\* C13: the closed flag of a channel never goes back from closed to open,
\* and no close is executed on a closed channel: the panic "close of closed
\* channel" is not reached
C13_ClosedOnce ==
    /\ [][\A c \in ChanNames : chans[c].closed => chans'[c].closed]_vars
    /\ [](crashed # "close of closed channel")

\* main has closed channel1 and channel2, each once
C13_Witness ==
    /\ demo = "select"
    /\ pc["main"] = "done"
    /\ chans["channel1"].closed /\ chans["channel2"].closed
    /\ crashed = "none"

\* C14: the panic of ohNoes unwinds the stack up to keepCalm, whose deferred
\* function recovers it: the statement after ohNoes() is never executed,
\* recover() returns "we are screwed", the panic does not end the program,
\* and keepCalm returns to later, which goes on with laterr()
C14_PanicRecovered ==
    demo = "panic" =>
        /\ pc["main"] # "too bad"
        /\ "too bad won't execute" \notin RangeOf(log["main"])
        /\ crashed = "none"
        /\ pc["main"] = "Println(whatNow)" =>
              /\ whatNow = "we are screwed"
              /\ panicking = "none"
              /\ [k \in 1..Len(stack) |-> stack[k].fn] = <<"later", "keepCalm", "func">>
        /\ pc["main"] \in {"laterr()", "done"} =>
              /\ whatNow = "we are screwed"
              /\ panicking = "none"
              /\ [k \in 1..Len(stack) |-> stack[k].fn] = <<"later">>
        /\ pc["main"] = "done" => log["main"] = <<"we are screwed", "laterr()">>

\* later has called laterr() after the recovered panic
C14_Witness ==
    /\ demo = "panic"
    /\ pc["main"] = "done"
    /\ log["main"] = <<"we are screwed", "laterr()">>

\* the deposits between the return of Lock and the deferred Unlock
locked == {p \in Deposits : pc[p] \in {"read", "write", "unlock"}}

\* C15: at most one deposit is between Lock and Unlock of balanceMutex, it is
\* the holder of the mutex, balance is read and written by the holder only,
\* and a deposit that has returned has released the mutex, which is free
\* once both deposits have returned
C15_MutualExclusion ==
    /\ [](demo = "mutex" =>
             /\ Cardinality(locked) <= 1
             /\ \A p \in locked : balanceMutex = p
             /\ \A p \in Deposits : pc[p] = "done" => balanceMutex # p
             /\ (\A p \in Deposits : pc[p] = "done") => balanceMutex = "none")
    /\ [][demo = "mutex" /\ (balance' # balance \/ tmp' # tmp) =>
             /\ balanceMutex \in Deposits
             /\ pc[balanceMutex] \in {"read", "write"}
             /\ pc'[balanceMutex] # pc[balanceMutex]
             /\ \A q \in Deposits \ {balanceMutex} : pc'[q] = pc[q]]_vars

\* deposit15 holds the mutex and is about to write balance while deposit500
\* waits in Lock
C15_Witness ==
    /\ demo = "mutex"
    /\ balanceMutex = "deposit15"
    /\ pc["deposit15"] = "write"
    /\ pc["deposit500"] = "lock"

\* C16: readWriteMutex is held by no goroutine, or by the writer moreCoins
\* and no reader, or by one or both readers and no writer; the holders are
\* the goroutines between their lock and their unlock; every reader prints
\* 0 or 15 for coins
C16_ReadersOrWriter ==
    demo = "rwmutex" =>
        /\ \/ readWriteMutex.writer = "none" /\ readWriteMutex.readers = {}
           \/ readWriteMutex.writer = "moreCoins" /\ readWriteMutex.readers = {}
           \/ /\ readWriteMutex.writer = "none"
              /\ readWriteMutex.readers # {}
              /\ readWriteMutex.readers \subseteq Readers
        /\ readWriteMutex.writer = "moreCoins"
              <=> pc["moreCoins"] \in {"read", "write", "unlock"}
        /\ \A p \in Readers :
              p \in readWriteMutex.readers <=> pc[p] \in {"printf", "runlock"}
        /\ \A p \in Readers :
              /\ \A k \in 1..Len(out[p]) : out[p][k] \in {0, count}
              /\ pc[p] \in {"runlock", "done"} => Len(out[p]) = 1
        /\ coins \in {0, count}

\* one reader has printed 0 before the writer had the mutex and the other 15
\* after it
C16_Witness ==
    /\ demo = "rwmutex"
    /\ \A p \in Readers : pc[p] = "done"
    /\ out["howManyCoins1"] = <<0>>
    /\ out["howManyCoins2"] = <<15>>

\* both readers hold the mutex while the writer waits in Lock
C16_ReadersTogether ==
    /\ demo = "rwmutex"
    /\ readWriteMutex.readers = Readers
    /\ readWriteMutex.waiting = "moreCoins"

\* number of calls of func() { stuff = 10 } made so far
initialisations ==
    Len(log["printStuff1"]) + Len(log["printStuff2"])

\* C17: the function given to onceMutex.Do is called once in total by the two
\* goroutines of printStuff, no goroutine is past its Do before the
\* function has returned, and both print stuff 10
C17_Once ==
    demo = "once" =>
        /\ initialisations <= 1
        /\ \A p \in Printers :
              /\ pc[p] \in {"Printf", "done"} =>
                    /\ initialisations = 1
                    /\ stuff = 10
                    /\ \A q \in Printers : pc[q] \notin {"func", "store"}
              /\ pc[p] = "done" => out[p] = <<10>>
              /\ pc[p] # "done" => out[p] = <<>>

\* printStuff2 found the function not done, then waited for the mutex while
\* printStuff1 called it, and returns from Do without calling it again;
\* printStuff1 has printed 10
C17_Witness ==
    /\ demo = "once"
    /\ pc["printStuff2"] = "unlock"
    /\ log["printStuff2"] = <<>>
    /\ log["printStuff1"] = <<"stuff = 10">>
    /\ out["printStuff1"] = <<10>>

\* the send of work item goroutine p is complete: the goroutine has gone on,
\* or main has taken its value and released it from the send
sent(p) == pc[p] = "done" \/ (pc[p] = "send" /\ wait[p] = "woken")

\* C18: when main is at close(channel) in the fan in demonstration, and
\* after it, the send of every work item goroutine is complete: none is
\* parked on the channel or still to send, and none fails on the closed
\* channel
C18_FanInSendsComplete ==
    demo = "fanin" =>
        /\ pc["main"] \in {"close", "done"} =>
              /\ \A p \in WorkProcs : sent(p)
              /\ chans["channel"].sendq = <<>>
              /\ Len(out["main"]) = Len(workItems)
        /\ crashed = "none"
        /\ \A p \in WorkProcs : wait[p] # "panic"

\* main has closed the channel while a work item goroutine released from its
\* send has not gone on yet
C18_Witness ==
    /\ demo = "fanin"
    /\ pc["main"] = "done"
    /\ chans["channel"].closed
    /\ \E p \in WorkProcs : pc[p] = "send" /\ wait[p] = "woken"

\* main holds a received result it has not added yet
holdsResult == pc["main"] = "add" \/ (wait["main"] = "woken" /\ rv["main"].ok)

RECURSIVE Sum(_)
\* the sum of the numbers of a sequence
Sum(q) == IF q = <<>> THEN 0 ELSE q[1] + Sum(Tail(q))

\* the work items the goroutines have sent so far
resultsSent ==
    Sum([k \in 1..Len(accumulatedWorkItems) |->
            IF \E p \in ResultProcs :
                  /\ capturedResult(p) = accumulatedWorkItems[k]
                  /\ (pc[p] = "done" \/ wait[p] = "woken")
            THEN accumulatedWorkItems[k] ELSE 0])

\* C19: results has room for the len(workItems) values sent on it, so no
\* goroutine ever waits in its send; what main has added up, with the value
\* it holds and the values in the buffer, is the sum of the work items sent;
\* main leaves its loop, with accumulation 29, and prints it
C19_Accumulation ==
    /\ [](demo = "results" =>
             /\ chans["results"].cap = Len(accumulatedWorkItems)
             /\ chans["results"].sendq = <<>>
             /\ \A p \in ResultProcs : wait[p] = "run"
             /\ accumulation + Sum(chans["results"].buf)
                   + (IF holdsResult THEN rv["main"].value ELSE 0) = resultsSent
             /\ pc["main"] \in {"Printf", "done"} =>
                   /\ accumulation = 29
                   /\ accumulation = Sum(accumulatedWorkItems)
                   /\ i["main"] = Len(accumulatedWorkItems)
             /\ pc["main"] = "done" => out["main"] = <<29>>
             /\ crashed = "none")
    /\ (demo = "results" ~> pc["main"] = "done")

\* every goroutine has sent its work item, main has received the seven
\* results and has printed 29
C19_Witness ==
    /\ demo = "results"
    /\ pc["main"] = "done"
    /\ out["main"] = <<29>>
    /\ chans["results"].buf = <<>>
    /\ \A p \in ResultProcs : pc[p] = "done"

\* C20: the back pressure demonstration and the loop on the unbuffered
\* channel never stop before their end, and with a scheduler that runs every
\* goroutine that can run they reach it: the producer has sent its 10 values
\* and closed the channel, the consumer has received the 10 values and left
\* its range loop with "channel was closed"; the sender and the receiver of
\* the 5 values likewise
C20_Terminates ==
    /\ [](demo = "backpressure"
             /\ ~(pc["producer"] = "done" /\ pc["consumer"] = "done")
          => ENABLED NextLive)
    /\ [](demo = "loop"
             /\ ~(pc["sender"] = "done" /\ pc["receiver"] = "done")
          => ENABLED NextLive)
    /\ (demo = "backpressure" ~>
           /\ pc["producer"] = "done"
           /\ i["producer"] = ProducerCount
           /\ chans["channel"].closed
           /\ pc["consumer"] = "done"
           /\ out["consumer"] = Iota(ProducerCount)
           /\ log["consumer"] = <<"channel was closed">>)
    /\ (demo = "loop" ~>
           /\ pc["sender"] = "done"
           /\ i["sender"] = SenderCount
           /\ chans["channel"].closed
           /\ pc["receiver"] = "done"
           /\ out["receiver"] = Iota(SenderCount)
           /\ log["receiver"] = <<"channel was closed">>)

\* both goroutines of the back pressure demonstration are at their end, the
\* consumer with the 10 values
C20_Witness ==
    /\ demo = "backpressure"
    /\ pc["producer"] = "done"
    /\ pc["consumer"] = "done"
    /\ out["consumer"] = Iota(ProducerCount)
    /\ chans["channel"].closed

\* the sender and the receiver of the 5 values are at their end
C20_LoopEnd ==
    /\ demo = "loop"
    /\ pc["sender"] = "done"
    /\ pc["receiver"] = "done"
    /\ out["receiver"] = Iota(SenderCount)

====
